---- MODULE Spec2Model ----
(***************************************************************************)
(* Ts3Proxy (server.js): the route table config.routes, the list of        *)
(* running proxies activeServers, the listening sockets they hold, and     *)
(* the per-client sessions of a UDP proxy.                                 *)
(*                                                                         *)
(* Every handler of server.js runs to completion on the event loop, so     *)
(* each one is a single action.  A handler is written as an operator from  *)
(* a state record S = [routes, activeServers, orphans] to the record it    *)
(* leaves behind (plus its return value); the action commits the record.   *)
(*                                                                         *)
(* A listening socket object is referred to by at most one entry of        *)
(* activeServers (the entry pushed when it was created), so the socket's   *)
(* state is kept in that entry's server field.  A socket that is still     *)
(* open when its entry goes is kept in orphans; a closed socket that       *)
(* nothing refers to is garbage.                                           *)
(***************************************************************************)
EXTENDS Naturals, Integers, Sequences, FiniteSets, TLC

VARIABLES
    routes,         \* config.routes: the route table, in table order
    activeServers,  \* activeServers: the entries pushed for started proxies
    orphans,        \* listening sockets still open that no entry refers to
    result,         \* the last handler that ran and what it returned
    steps,          \* handlers run so far
    clients,        \* the clients Map of one UDP proxy: clientKey -> session
    sockets,        \* every per-client socket that proxy has created
    timers,         \* the pending setTimeout callbacks of that proxy
    now,            \* the clock, in ticks
    lastSeen,       \* per client key with a session, when its last datagram
                    \* was handled
    lastReply,      \* the last reply sent to a client: to whom and when
    conns           \* the connections one TCP proxy has accepted

ctlVars == <<routes, activeServers, orphans, result, steps>>
udpVars == <<clients, sockets, timers, now, lastSeen, lastReply>>
tcpVars == <<conns>>
vars == <<ctlVars, udpVars, tcpVars>>

-----------------------------------------------------------------------------
(* Bounds and input domains *)

\* Handlers run in one behaviour.
MaxSteps == 3

\* Per-client sockets one UDP proxy creates in one behaviour.
MaxSockets == 2

\* Ticks of the clock in one behaviour.
MaxTime == 2

\* Connections one TCP proxy accepts in one behaviour.
MaxConns == 1

\* config.udpTimeout, in ticks.
UdpTimeout == 2

\* Client endpoints, as the keys `${rinfo.address}:${rinfo.port}`.
Keys == {"192.0.2.1:5000", "192.0.2.2:5000"}

Names == {"a", "b"}
Protocols == {"tcp", "udp"}
Listens == { [host |-> "127.0.0.1", port |-> 9987],
             [host |-> "127.0.0.2", port |-> 9988] }
Forwards == { [host |-> "10.0.0.1", port |-> 9987],
              [host |-> "10.0.0.2", port |-> 9987] }

\* A route definition as the control plane hands it to routeManager.
RouteConfigs ==
    [name : Names, protocol : Protocols, listen : Listens,
     forward : Forwards, enabled : BOOLEAN]

\* The definitions addRoute is called with: new routes come with the first
\* forward target, and updateRoute is what moves a route to the other one.
AddConfigs == { rc \in RouteConfigs : rc.forward.host = "10.0.0.1" }

\* The value startTcpProxy / startUdpProxy return when they refuse to start.
NoServer == [wrapper |-> FALSE, state |-> "null"]

-----------------------------------------------------------------------------
(* Helpers over the two lists *)

\* config.routes.findIndex(r => r.name === routeName); 0 stands for -1.
RECURSIVE FindFrom(_, _, _)
FindFrom(seq, name, i) ==
    IF i > Len(seq) THEN 0
    ELSE IF seq[i].name = name THEN i
    ELSE FindFrom(seq, name, i + 1)

findIndex(seq, name) == FindFrom(seq, name, 1)

\* array.splice(i, 1)
splice(seq, i) == SubSeq(seq, 1, i - 1) \o SubSeq(seq, i + 1, Len(seq))

\* activeServers.some(s => s.name === route.name): the derived `active` flag.
IsActive(active, name) == \E i \in 1..Len(active) : active[i].name = name

TableNames(table) == { table[i].name : i \in 1..Len(table) }

-----------------------------------------------------------------------------
(* startTcpProxy / startUdpProxy *)

\* The pre-check as it would be if it looked only at the entry of the route
\* being started.
AddressInUseSameName(active, protocol, route) ==
    \E i \in 1..Len(active) :
        /\ active[i].name = route.name
        /\ active[i].protocol = protocol
        /\ active[i].listen.port = route.listen.port
        /\ active[i].listen.host = route.listen.host

\* The pre-check loop at the top of both start functions: an entry of
\* activeServers of this protocol already has the route's listen port and host.
AddressInUse(active, protocol, route) ==
    \E i \in 1..Len(active) :
        /\ active[i].protocol = protocol
        /\ active[i].listen.port = route.listen.port
        /\ active[i].listen.host = route.listen.host

\* startTcpProxy: net.createServer + listen; returns the net.Server itself.
\* The outcome of the bind arrives later as an event.
startTcpProxy(S, route) ==
    IF AddressInUse(S.activeServers, "tcp", route) THEN NoServer
    ELSE [wrapper |-> FALSE, state |-> "binding"]

\* startUdpProxy: dgram.createSocket + bind; returns { server: udpServer,
\* clients }, an object that wraps the socket and is not the socket.
startUdpProxy(S, route) ==
    IF AddressInUse(S.activeServers, "udp", route) THEN NoServer
    ELSE [wrapper |-> TRUE, state |-> "binding"]

\* The block repeated in startAllProxies, addRoute, updateRoute and
\* toggleRoute: start by protocol and, if a server came back, push the entry.
startRoute(S, route, name) ==
    LET server == IF route.protocol = "tcp" THEN startTcpProxy(S, route)
                  ELSE IF route.protocol = "udp" THEN startUdpProxy(S, route)
                  ELSE NoServer
    IN  IF server = NoServer THEN S
        ELSE [S EXCEPT !.activeServers =
                 Append(@, [name |-> name, protocol |-> route.protocol,
                            listen |-> route.listen, forward |-> route.forward,
                            server |-> server])]

-----------------------------------------------------------------------------
(* Stopping *)

\* entry.server.close(): the value startUdpProxy returned has no close
\* method, so the call throws a TypeError; a net.Server has one and releases
\* its listening handle at once.
CloseThrows(entry) == entry.server.wrapper

\* The socket of an entry as the OS sees it.
SocketOf(entry) ==
    [protocol |-> entry.protocol, listen |-> entry.listen,
     state |-> entry.server.state]

\* The sockets that stay open when these entries leave activeServers without
\* a successful close().
Unclosed(entries) ==
    { SocketOf(entries[i]) :
        i \in { j \in 1..Len(entries) :
                  /\ CloseThrows(entries[j])
                  /\ entries[j].server.state # "closed" } }

\* stopAllProxies as it would be if an entry left the list only when its
\* close() went through.
stopAllProxiesClosedOnly(S) ==
    [S EXCEPT !.activeServers = SelectSeq(@, LAMBDA s : CloseThrows(s))]

\* stopAllProxies: close each entry inside its own try/catch, then empty the
\* list whatever happened.  (The client sockets of a UDP entry are closed
\* first; the sessions are modelled in the session part of this module.)
stopAllProxies(S) ==
    [S EXCEPT !.orphans = @ \cup Unclosed(S.activeServers),
              !.activeServers = <<>>]

\* The stop block of removeRoute, updateRoute and toggleRoute: find the first
\* entry of that name, close it, and only then filter the name out; a throw
\* from close() skips the filter.  The filter takes every entry of that name,
\* closed or not.
stopRoute(S, name) ==
    LET i == findIndex(S.activeServers, name)
        gone == SelectSeq(S.activeServers, LAMBDA s : s.name = name)
        others == SubSeq(gone, 2, Len(gone))
    IN
    IF i = 0 THEN S
    ELSE IF CloseThrows(S.activeServers[i]) THEN S
    ELSE [S EXCEPT
            !.orphans = @ \cup
                { SocketOf(others[k]) :
                    k \in { j \in 1..Len(others) :
                              others[j].server.state # "closed" } },
            !.activeServers = SelectSeq(@, LAMBDA s : s.name # name)]

\* The loop as it would be if a route that did not start ended the pass.
RECURSIVE startLoopAbort(_, _)
startLoopAbort(S, i) ==
    IF i > Len(S.routes) THEN S
    ELSE IF ~S.routes[i].enabled THEN startLoopAbort(S, i + 1)
    ELSE LET T == startRoute(S, S.routes[i], S.routes[i].name) IN
         IF T = S THEN S ELSE startLoopAbort(T, i + 1)

\* startAllProxies: stop everything, then start every enabled route in
\* table order.
RECURSIVE startLoop(_, _)
startLoop(S, i) ==
    IF i > Len(S.routes) THEN S
    ELSE startLoop(IF S.routes[i].enabled
                   THEN startRoute(S, S.routes[i], S.routes[i].name)
                   ELSE S,
                   i + 1)

startAllProxies(S) == startLoop(stopAllProxies(S), 1)

\* POST /restart
restart(S) == startAllProxies(stopAllProxies(S))

-----------------------------------------------------------------------------
(* routeManager *)

Ok(S) == [st |-> S, success |-> TRUE]
Fail(S) == [st |-> S, success |-> FALSE]

\* addRoute as it would be without the lookup of the name.
addRouteNoLookup(S, routeConfig) ==
    LET S1 == [S EXCEPT !.routes = Append(@, routeConfig)] IN
    Ok(IF routeConfig.enabled
       THEN startRoute(S1, routeConfig, routeConfig.name)
       ELSE S1)

\* routeManager.addRoute(routeConfig)
addRoute(S, routeConfig) ==
    IF findIndex(S.routes, routeConfig.name) # 0 THEN Fail(S)
    ELSE LET S1 == [S EXCEPT !.routes = Append(@, routeConfig)] IN
         Ok(IF routeConfig.enabled
            THEN startRoute(S1, routeConfig, routeConfig.name)
            ELSE S1)

\* routeManager.removeRoute(routeName)
removeRoute(S, routeName) ==
    LET routeIndex == findIndex(S.routes, routeName) IN
    IF routeIndex = 0 THEN Fail(S)
    ELSE LET S1 == stopRoute(S, routeName) IN
         Ok([S1 EXCEPT !.routes = splice(@, routeIndex)])

\* { name: routeName, ...routeConfig }: the definition's own name wins.
withNameFirst(routeConfig, routeName) == routeConfig

\* { ...routeConfig, name: routeName }
withName(routeConfig, routeName) == [routeConfig EXCEPT !.name = routeName]

\* routeManager.updateRoute(routeName, routeConfig)
updateRoute(S, routeName, routeConfig) ==
    LET routeIndex == findIndex(S.routes, routeName) IN
    IF routeIndex = 0 THEN Fail(S)
    ELSE LET S1 == [S EXCEPT !.routes[routeIndex] =
                                 withName(routeConfig, routeName)]
             S2 == stopRoute(S1, routeName)
         IN  Ok(IF routeConfig.enabled
                THEN startRoute(S2, routeConfig, routeName)
                ELSE S2)

\* routeManager.toggleRoute(routeName)
toggleRoute(S, routeName) ==
    LET routeIndex == findIndex(S.routes, routeName) IN
    IF routeIndex = 0 THEN Fail(S)
    ELSE LET S1 == [S EXCEPT !.routes[routeIndex].enabled = ~@]
             isEnabled == S1.routes[routeIndex].enabled
             activeServer == IsActive(S1.activeServers, routeName)
         IN  IF isEnabled /\ ~activeServer
             THEN Ok(startRoute(S1, S1.routes[routeIndex], routeName))
             ELSE IF ~isEnabled /\ activeServer
             THEN Ok(stopRoute(S1, routeName))
             ELSE Ok(S1)

\* routeManager.getAllRoutes(): each route with its derived active flag.
getAllRoutes(S) ==
    [i \in 1..Len(S.routes) |->
        [route |-> S.routes[i],
         active |-> IsActive(S.activeServers, S.routes[i].name)]]

-----------------------------------------------------------------------------
(* Listener events *)

\* The OS refuses a bind while another open socket of the same protocol is
\* bound to the same address: the socket of another entry, or an orphan.
OsBound(S, i) ==
    LET e == S.activeServers[i] IN
    \/ \E j \in 1..Len(S.activeServers) :
          /\ j # i
          /\ S.activeServers[j].server.state = "listening"
          /\ S.activeServers[j].protocol = e.protocol
          /\ S.activeServers[j].listen = e.listen
    \/ [protocol |-> e.protocol, listen |-> e.listen, state |-> "listening"]
          \in S.orphans

\* s.server !== tcpServer / s.server !== udpServer in the error handlers'
\* filters, for the socket created for entry i: the entry's server field is
\* that socket only if it is not the wrapper object.
SameObject(active, j, i) == j = i /\ ~active[j].server.wrapper

\* activeServers.filter(s => s.server !== socket of entry i)
dropServer(active, i) ==
    LET keep == { j \in 1..Len(active) : ~SameObject(active, j, i) } IN
    IF i \in keep THEN active
    ELSE SubSeq(active, 1, i - 1) \o SubSeq(active, i + 1, Len(active))

\* tcpServer.on('error') for the server of entry i: drop the entry.  A failed
\* listen leaves the server without a handle; an error on a listening server
\* leaves it listening.
tcpServerError(S, i) ==
    LET e == S.activeServers[i]
        after == dropServer(S.activeServers, i)
    IN  [S EXCEPT
           !.activeServers = after,
           !.orphans = IF e.server.state = "listening" /\ after # S.activeServers
                       THEN @ \cup {SocketOf(e)} ELSE @]

\* udpServer.on('error') for the socket of entry i: close the socket, then
\* the same filter.
udpServerError(S, i) ==
    LET closed == [S.activeServers EXCEPT ![i].server.state = "closed"] IN
    [S EXCEPT !.activeServers = dropServer(closed, i)]

-----------------------------------------------------------------------------
(* The sessions of one UDP proxy: the handlers startUdpProxy registers *)

\* setTimeout returns a handle no pending timer and no session holds.
FreshTimer(pending, sessions) ==
    CHOOSE id \in 1..(Cardinality(pending) + Cardinality(DOMAIN sessions) + 1) :
        /\ \A t \in pending : t.id # id
        /\ \A k \in DOMAIN sessions : sessions[k].timeout # id

\* clearTimeout(handle)
clearTimeout(pending, id) == { t \in pending : t.id # id }

\* clients.delete(clientKey)
mapDelete(map, key) == [k \in DOMAIN map \ {key} |-> map[k]]

\* clients.set(clientKey, value)
mapSet(map, key, value) ==
    [k \in DOMAIN map \cup {key} |-> IF k = key THEN value ELSE map[k]]

\* udpServer.on('message') for a datagram from client endpoint key.  A new
\* key gets a socket of its own and a first timer; then, for every datagram,
\* the session's timer is cleared and set again, and the datagram is sent on
\* the session's socket.
onMessage(U, key) ==
    LET isNew == key \notin DOMAIN U.clients
        sock == Len(U.sockets) + 1
        first == FreshTimer(U.timers, U.clients)
        U1 == IF isNew
              THEN [U EXCEPT
                      !.sockets = Append(@, [key |-> key, state |-> "open"]),
                      !.timers = @ \cup {[id |-> first, key |-> key,
                                          due |-> U.now + UdpTimeout]},
                      !.clients = mapSet(@, key, [socket |-> sock,
                                                  timeout |-> first])]
              ELSE U
        cleared == clearTimeout(U1.timers, U1.clients[key].timeout)
        again == FreshTimer(cleared, mapDelete(U1.clients, key))
    IN  [U1 EXCEPT
           !.timers = cleared \cup {[id |-> again, key |-> key,
                                     due |-> U.now + UdpTimeout]},
           !.clients[key].timeout = again,
           !.lastSeen[key] = U.now]

\* clientSocket.on('error') of socket s: close it and delete its key from the
\* map; the session's timer is left pending.
onSocketError(U, s) ==
    [U EXCEPT !.sockets[s].state = "closed",
              !.clients = mapDelete(@, U.sockets[s].key),
              !.lastSeen[U.sockets[s].key] = 0]

\* socket.close() on a dgram socket that is already closed throws
\* ERR_SOCKET_DGRAM_NOT_RUNNING; so does socket.send().
NotRunning(U, s) == U.sockets[s].state = "closed"

\* The callback of a timer runs into close() on a closed socket: nothing
\* catches the exception.
timeoutThrows(U, t) ==
    /\ t.key \in DOMAIN U.clients
    /\ NotRunning(U, U.clients[t.key].socket)

\* The callback of a timer: if the map has the key, close the socket the map
\* holds for it now and delete the key; a throw from close() skips the
\* delete.
onTimeout(U, t) ==
    LET U1 == [U EXCEPT !.timers = @ \ {t}] IN
    IF t.key \notin DOMAIN U.clients \/ timeoutThrows(U, t) THEN U1
    ELSE [U1 EXCEPT !.sockets[U.clients[t.key].socket].state = "closed",
                    !.clients = mapDelete(@, t.key),
                    !.lastSeen[t.key] = 0]

\* The target of a reply as it would be if the handler read the rinfo of the
\* newest client instead of the one it was created with.
replyTargetNewest(U, s) == U.sockets[Len(U.sockets)].key

\* clientSocket.on('message') of socket s: a reply of the backend is sent
\* through the listening socket to the rinfo of the datagram that created
\* s.  No timer is touched.
replyTarget(U, s) == U.sockets[s].key

onReply(U, s) == [U EXCEPT !.lastReply = [to |-> replyTarget(U, s),
                                          at |-> U.now]]

\* The keys of the Map in iteration order, which is insertion order: a
\* session inserted later holds a socket created later.
RECURSIVE mapKeys(_)
mapKeys(map) ==
    IF DOMAIN map = {} THEN <<>>
    ELSE LET first == CHOOSE k \in DOMAIN map :
                          \A q \in DOMAIN map : map[k].socket <= map[q].socket
         IN  <<first>> \o mapKeys(mapDelete(map, first))

\* The inner loop of stopAllProxies over server.server.clients: clearTimeout
\* and close() per session, nothing deleted from the Map; a throw from
\* close() ends the loop (the catch is outside it).
RECURSIVE closeSessions(_, _)
closeSessions(U, keys) ==
    IF keys = <<>> THEN U
    ELSE LET client == U.clients[Head(keys)]
             U1 == [U EXCEPT !.timers = clearTimeout(@, client.timeout)]
         IN  IF NotRunning(U1, client.socket) THEN U1
             ELSE closeSessions([U1 EXCEPT
                                   !.sockets[client.socket].state = "closed"],
                                Tail(keys))

\* The entry whose clients Map is the modelled one: sessions exist only on
\* a UDP socket that is bound.
HoldsSessions(entry) ==
    /\ entry.protocol = "udp"
    /\ entry.server.wrapper
    /\ entry.server.state = "listening"

\* What stopAllProxies does to the sessions.
stopAllSessions(S, U) ==
    IF \E i \in 1..Len(S.activeServers) : HoldsSessions(S.activeServers[i])
    THEN closeSessions(U, mapKeys(U.clients))
    ELSE U

-----------------------------------------------------------------------------
(* The control-plane specification *)

State == [routes |-> routes, activeServers |-> activeServers,
          orphans |-> orphans]

Commit(S) ==
    /\ routes' = S.routes
    /\ activeServers' = S.activeServers
    /\ orphans' = S.orphans

Udp == [clients |-> clients, sockets |-> sockets, timers |-> timers,
        now |-> now, lastSeen |-> lastSeen, lastReply |-> lastReply]

CommitSessions(U) ==
    /\ clients' = U.clients
    /\ sockets' = U.sockets
    /\ timers' = U.timers
    /\ now' = U.now
    /\ lastSeen' = U.lastSeen
    /\ lastReply' = U.lastReply

\* The process is past start() and has neither died nor exited.
Alive == result.op \notin {"boot", "crashed", "SIGINT"}

\* A handler of the control plane ran to its end: what it was and what it
\* returned.
Handled(op, name, success) ==
    /\ Alive
    /\ steps < MaxSteps
    /\ steps' = steps + 1
    /\ result' = [op |-> op, name |-> name, success |-> success]

\* A handler that touches no session and no accepted connection.
Returned(op, name, success) ==
    /\ Handled(op, name, success)
    /\ UNCHANGED udpVars
    /\ UNCHANGED tcpVars

\* A UDP proxy as startUdpProxy leaves it (const clients = new Map()), and a
\* TCP proxy that has accepted no connection yet.
NoSessions ==
    /\ clients = <<>>
    /\ sockets = <<>>
    /\ timers = {}
    /\ now = 0
    /\ lastSeen = [k \in Keys |-> 0]
    /\ lastReply = [to |-> "", at |-> 0]
    /\ conns = <<>>

\* start(): the table was loaded (here: an empty table) and startAllProxies ran.
Init ==
    /\ routes = <<>>
    /\ activeServers = <<>>
    /\ orphans = {}
    /\ result = [op |-> "start", name |-> "", success |-> TRUE]
    /\ steps = 0
    /\ NoSessions

AddRoute ==
    \E rc \in AddConfigs :
        LET r == addRoute(State, rc) IN
          Commit(r.st) /\ Returned("addRoute", rc.name, r.success)

RemoveRoute ==
    \E n \in Names :
        LET r == removeRoute(State, n) IN
          Commit(r.st) /\ Returned("removeRoute", n, r.success)

UpdateRouteOf(n, rc) ==
    LET r == updateRoute(State, n, rc) IN
      Commit(r.st) /\ Returned("updateRoute", n, r.success)

UpdateRoute == \E n \in Names, rc \in RouteConfigs : UpdateRouteOf(n, rc)

ToggleRoute ==
    \E n \in Names :
        LET r == toggleRoute(State, n) IN
          Commit(r.st) /\ Returned("toggleRoute", n, r.success)

\* POST /restart: the first stopAllProxies also closes the sessions of the
\* UDP entry it finds; TCP connections already accepted are not touched.
Restart ==
    /\ Commit(restart(State))
    /\ Handled("restart", "", TRUE)
    /\ CommitSessions(stopAllSessions(State, Udp))
    /\ UNCHANGED tcpVars

\* process.on('SIGINT'): stopAllProxies, then process.exit(); no handler runs
\* after it.
Shutdown ==
    /\ Commit(stopAllProxies(State))
    /\ Handled("SIGINT", "", TRUE)
    /\ CommitSessions(stopAllSessions(State, Udp))
    /\ UNCHANGED tcpVars

\* The 'listening' event of the socket of entry i: the bind went through.
Listening ==
    \E i \in 1..Len(activeServers) :
        /\ activeServers[i].server.state = "binding"
        /\ ~OsBound(State, i)
        /\ activeServers' =
              [activeServers EXCEPT ![i].server.state = "listening"]
        /\ Returned("listening", activeServers[i].name, TRUE)
        /\ UNCHANGED <<routes, orphans>>

\* An 'error' event on the TCP server of entry i: a failed bind, or an error
\* while listening.
TcpServerErrorOf(i) ==
    /\ activeServers[i].protocol = "tcp"
    /\ activeServers[i].server.state \in {"binding", "listening"}
    /\ Commit(tcpServerError(State, i))
    /\ Returned("error", activeServers[i].name, TRUE)

TcpServerError == \E i \in 1..Len(activeServers) : TcpServerErrorOf(i)

\* An 'error' event on the UDP socket of entry i.
UdpServerErrorOf(i) ==
    /\ activeServers[i].protocol = "udp"
    /\ activeServers[i].server.state \in {"binding", "listening"}
    /\ Commit(udpServerError(State, i))
    /\ Returned("error", activeServers[i].name, TRUE)

UdpServerError == \E i \in 1..Len(activeServers) : UdpServerErrorOf(i)

\* The bind of an orphaned socket goes through.
OrphanListening ==
    \E o \in orphans :
        /\ o.state = "binding"
        /\ [o EXCEPT !.state = "listening"] \notin orphans
        /\ ~\E j \in 1..Len(activeServers) :
              /\ activeServers[j].server.state = "listening"
              /\ activeServers[j].protocol = o.protocol
              /\ activeServers[j].listen = o.listen
        /\ orphans' = (orphans \ {o}) \cup {[o EXCEPT !.state = "listening"]}
        /\ Returned("listening", "", TRUE)
        /\ UNCHANGED <<routes, activeServers>>

\* An 'error' event on an orphaned UDP socket: its handler closes it; the
\* filter finds nothing to drop.
OrphanError ==
    \E o \in orphans :
        /\ o.protocol = "udp"
        /\ orphans' = orphans \ {o}
        /\ Returned("error", "", TRUE)
        /\ UNCHANGED <<routes, activeServers>>

Next ==
    \/ AddRoute
    \/ RemoveRoute
    \/ UpdateRoute
    \/ ToggleRoute
    \/ Restart
    \/ Shutdown
    \/ Listening
    \/ TcpServerError
    \/ UdpServerError
    \/ OrphanListening
    \/ OrphanError

Spec == Init /\ [][Next]_vars

-----------------------------------------------------------------------------
(* Starting from a loaded table *)

\* Tables a configuration file may hold: three routes, distinct names.
LoadedTables ==
    { <<ra, rb, rc>> :
        ra \in { r \in RouteConfigs : r.name = "a" /\ r.forward.host = "10.0.0.1" },
        rb \in { r \in RouteConfigs : r.name = "b" /\ r.forward.host = "10.0.0.1" },
        rc \in { [r EXCEPT !.name = "c"] :
                   r \in { q \in RouteConfigs :
                             q.name = "a" /\ q.forward.host = "10.0.0.1" } } }

\* start(): loadConfig assigns the table read from the file, then
\* startAllProxies runs.
InitLoaded ==
    /\ \E table \in LoadedTables :
          LET S == startAllProxies([routes |-> table, activeServers |-> <<>>,
                                    orphans |-> {}])
          IN  /\ routes = S.routes
              /\ activeServers = S.activeServers
              /\ orphans = S.orphans
    /\ result = [op |-> "start", name |-> "", success |-> TRUE]
    /\ steps = 0
    /\ NoSessions

NextLoaded ==
    \/ Restart
    \/ ToggleRoute
    \/ Listening
    \/ TcpServerError
    \/ UdpServerError
    \/ OrphanListening
    \/ OrphanError

SpecLoaded == InitLoaded /\ [][NextLoaded]_vars

-----------------------------------------------------------------------------
(* start(), from the configuration file *)

\* What proxy-config.json is when the process starts: absent, or a
\* configuration that holds a route table.
ConfigFiles ==
    {[present |-> FALSE, routes |-> <<>>]}
      \cup { [present |-> TRUE, routes |-> table] : table \in LoadedTables }

\* The global `config`: no statement of server.js declares it, so it exists
\* only once line 12 has assigned it.
NoConfig == [defined |-> FALSE, routes |-> <<>>]

\* log(level, message) starts by reading config.logging.enabled: a
\* ReferenceError while there is no `config`.
logThrows(config) == ~config.defined

\* saveConfig(): JSON.stringify(config) is evaluated before writeFileSync is
\* called, inside the try; the catch calls log, and what log throws leaves
\* saveConfig.
saveConfig(config) ==
    IF config.defined
    THEN [saved |-> TRUE, throws |-> logThrows(config)]
    ELSE [saved |-> FALSE, throws |-> logThrows(config)]

\* loadConfig(): parse the file if it is there, else saveConfig(); either
\* branch then logs inside the try, and the catch logs again.
loadConfig(file) ==
    IF file.present
    THEN LET config == [defined |-> TRUE, routes |-> file.routes] IN
         [config |-> config, saved |-> FALSE, throws |-> logThrows(config)]
    ELSE LET save == saveConfig(NoConfig)
             inTry == save.throws \/ logThrows(NoConfig)
         IN  [config |-> NoConfig, saved |-> save.saved,
              throws |-> inTry /\ logThrows(NoConfig)]

\* start(): loadConfig, setupLogging, startAllProxies.  An exception that
\* leaves loadConfig leaves start() and the module: the process dies.
start(file) ==
    LET load == loadConfig(file) IN
    IF load.throws
    THEN [running |-> FALSE, saved |-> load.saved,
          st |-> [routes |-> <<>>, activeServers |-> <<>>, orphans |-> {}]]
    ELSE [running |-> TRUE, saved |-> load.saved,
          st |-> startAllProxies([routes |-> load.config.routes,
                                  activeServers |-> <<>>, orphans |-> {}])]

\* node server.js: the module's last statement calls start().
StartOf(file) ==
    /\ result.op = "boot"
    /\ LET r == start(file) IN
         /\ Commit(r.st)
         /\ result' = [op |-> IF r.running THEN "start" ELSE "crashed",
                       name |-> "", success |-> r.running]
    /\ UNCHANGED steps
    /\ UNCHANGED udpVars
    /\ UNCHANGED tcpVars

Start == \E file \in ConfigFiles : StartOf(file)

\* The process before start() has run: no `config`, activeServers = [].
InitStart ==
    /\ routes = <<>>
    /\ activeServers = <<>>
    /\ orphans = {}
    /\ result = [op |-> "boot", name |-> "", success |-> TRUE]
    /\ steps = 0
    /\ NoSessions

NextStart ==
    \/ Start
    \/ Restart
    \/ ToggleRoute
    \/ Listening
    \/ TcpServerError
    \/ UdpServerError
    \/ OrphanListening
    \/ OrphanError

SpecStart == InitStart /\ [][NextStart]_vars

-----------------------------------------------------------------------------
(* The events of one UDP proxy *)

CommitUdp(U) ==
    /\ Alive
    /\ CommitSessions(U)
    /\ UNCHANGED ctlVars
    /\ UNCHANGED tcpVars

\* The UDP socket the sessions belong to is bound: as the socket of an entry,
\* or as a socket no entry refers to any more.
Receiving ==
    \/ \E i \in 1..Len(activeServers) : HoldsSessions(activeServers[i])
    \/ \E o \in orphans : o.protocol = "udp" /\ o.state = "listening"

\* A datagram from client endpoint k arrives on the listening socket.
DatagramOf(k) ==
    /\ Receiving
    /\ k \in DOMAIN clients \/ Len(sockets) < MaxSockets
    /\ CommitUdp(onMessage(Udp, k))

Datagram == \E k \in Keys : DatagramOf(k)

\* An 'error' event on an open per-client socket.
SocketError ==
    \E s \in 1..Len(sockets) :
        /\ sockets[s].state = "open"
        /\ CommitUdp(onSocketError(Udp, s))

\* A reply of the backend arrives on an open per-client socket.
ReplyOf(s) ==
    /\ sockets[s].state = "open"
    /\ Receiving
    /\ CommitUdp(onReply(Udp, s))

Reply == \E s \in 1..Len(sockets) : ReplyOf(s)

\* A timer whose delay has passed runs its callback; an exception that
\* leaves the callback ends the process.
TimeoutOf(t) ==
    /\ Alive
    /\ now >= t.due
    /\ CommitSessions(onTimeout(Udp, t))
    /\ result' = IF timeoutThrows(Udp, t)
                 THEN [op |-> "crashed", name |-> "", success |-> FALSE]
                 ELSE result
    /\ UNCHANGED <<routes, activeServers, orphans, steps>>
    /\ UNCHANGED tcpVars

Timeout == \E t \in timers : TimeoutOf(t)

Tick ==
    /\ Alive
    /\ now < MaxTime
    /\ now' = now + 1
    /\ UNCHANGED <<clients, sockets, timers, lastSeen, lastReply>>
    /\ UNCHANGED ctlVars
    /\ UNCHANGED tcpVars

\* The state of Spec after addRoute of an enabled UDP route and the
\* 'listening' event of its socket: two handlers have run.
InitUdp ==
    /\ routes = << [name |-> "a", protocol |-> "udp",
                    listen |-> [host |-> "127.0.0.1", port |-> 9987],
                    forward |-> [host |-> "10.0.0.1", port |-> 9987],
                    enabled |-> TRUE] >>
    /\ activeServers =
          << [name |-> "a", protocol |-> "udp",
              listen |-> [host |-> "127.0.0.1", port |-> 9987],
              forward |-> [host |-> "10.0.0.1", port |-> 9987],
              server |-> [wrapper |-> TRUE, state |-> "listening"]] >>
    /\ orphans = {}
    /\ result = [op |-> "listening", name |-> "a", success |-> TRUE]
    /\ steps = 2
    /\ NoSessions

NextUdp ==
    \/ Datagram
    \/ Reply
    \/ SocketError
    \/ Timeout
    \/ Tick
    \/ ToggleRoute
    \/ RemoveRoute
    \/ Restart

SpecUdp == InitUdp /\ [][NextUdp]_vars

-----------------------------------------------------------------------------
(* The connections of one TCP proxy (the connection handler of startTcpProxy) *)

\* A net.Socket: st is "connecting", "open", "closing" (an 'error' or the
\* peer's 'end' was emitted and 'close' is still to come) or "closed"; ended
\* says that end() was called on it, which closes this side of the
\* connection.
NewSocket(st) == [st |-> st, ended |-> FALSE]

\* socket.end(): nothing left to do on a socket that is already going down.
socketEnd(sock) ==
    IF sock.st \in {"closing", "closed"} THEN sock
    ELSE [sock EXCEPT !.ended = TRUE]

\* The callback of net.createServer for one inbound connection: the only
\* net.connect for it, to the forward target the proxy was started with.
onConnection(entry) ==
    [route |-> entry.name, forward |-> entry.forward,
     client |-> NewSocket("open"), server |-> NewSocket("connecting"),
     dials |-> 1, relayed |-> FALSE]

\* The same callback when net.connect throws: the catch ends the client
\* socket and there is no server socket.
onConnectionThrow(entry) ==
    [route |-> entry.name, forward |-> entry.forward,
     client |-> socketEnd(NewSocket("open")), server |-> NewSocket("closed"),
     dials |-> 1, relayed |-> FALSE]

\* clientSocket.on('error')
onClientError(conn) == [conn EXCEPT !.server = socketEnd(@)]

\* serverSocket.on('error') as it would be if it only logged.
onServerErrorLogOnly(conn) == conn

\* serverSocket.on('error'): a failed dial arrives here too.
onServerError(conn) == [conn EXCEPT !.client = socketEnd(@)]

\* clientSocket.on('close')
onClientClose(conn) == [conn EXCEPT !.server = socketEnd(@)]

\* serverSocket.on('close')
onServerClose(conn) == [conn EXCEPT !.client = socketEnd(@)]

\* clientSocket.pipe(serverSocket): the client's 'end' ends the server socket.
onClientEnd(conn) == [conn EXCEPT !.server = socketEnd(@)]

\* serverSocket.pipe(clientSocket): the backend's 'end' ends the client socket.
onServerEnd(conn) == [conn EXCEPT !.client = socketEnd(@)]

CommitTcp(c, conn) ==
    /\ Alive
    /\ conns' = [conns EXCEPT ![c] = conn]
    /\ UNCHANGED ctlVars
    /\ UNCHANGED udpVars

\* A client connects to a listening TCP server of activeServers.
Accept ==
    \E i \in 1..Len(activeServers) :
        /\ Alive
        /\ activeServers[i].protocol = "tcp"
        /\ activeServers[i].server.state = "listening"
        /\ Len(conns) < MaxConns
        /\ \/ conns' = Append(conns, onConnection(activeServers[i]))
           \/ conns' = Append(conns, onConnectionThrow(activeServers[i]))
        /\ UNCHANGED ctlVars
        /\ UNCHANGED udpVars

\* The dial went through (the callback of net.connect only logs).
Connected ==
    \E c \in 1..Len(conns) :
        /\ conns[c].server.st = "connecting"
        /\ CommitTcp(c, [conns[c] EXCEPT !.server.st = "open"])

\* 'error' on the client socket: the socket is destroyed, the handler runs.
ClientErrorOf(c) ==
    /\ conns[c].client.st = "open"
    /\ CommitTcp(c, onClientError([conns[c] EXCEPT !.client.st = "closing"]))

ClientError == \E c \in 1..Len(conns) : ClientErrorOf(c)

\* The client's FIN: the socket ends its own side too (allowHalfOpen is off).
ClientEndOf(c) ==
    /\ conns[c].client.st = "open"
    /\ CommitTcp(c, onClientEnd([conns[c] EXCEPT
                                   !.client = [st |-> "closing",
                                               ended |-> TRUE]]))

ClientEnd == \E c \in 1..Len(conns) : ClientEndOf(c)

\* 'close' on the client socket.
ClientCloseOf(c) ==
    /\ conns[c].client.st = "closing"
    /\ CommitTcp(c, onClientClose([conns[c] EXCEPT !.client.st = "closed"]))

ClientClose == \E c \in 1..Len(conns) : ClientCloseOf(c)

\* 'error' on the server socket: the dial failed, or the connection broke.
ServerErrorOf(c) ==
    /\ conns[c].server.st \in {"connecting", "open"}
    /\ CommitTcp(c, onServerError([conns[c] EXCEPT !.server.st = "closing"]))

ServerError == \E c \in 1..Len(conns) : ServerErrorOf(c)

\* The backend's FIN.
ServerEndOf(c) ==
    /\ conns[c].server.st = "open"
    /\ CommitTcp(c, onServerEnd([conns[c] EXCEPT
                                   !.server = [st |-> "closing",
                                               ended |-> TRUE]]))

ServerEnd == \E c \in 1..Len(conns) : ServerEndOf(c)

\* 'close' on the server socket.
ServerCloseOf(c) ==
    /\ conns[c].server.st = "closing"
    /\ CommitTcp(c, onServerClose([conns[c] EXCEPT !.server.st = "closed"]))

ServerClose == \E c \in 1..Len(conns) : ServerCloseOf(c)

\* The pipe hands bytes read from the client to the server socket, which
\* sends them to the forward target of the connection.
RelayOf(c) ==
    /\ conns[c].client.st = "open"
    /\ conns[c].server.st = "open"
    /\ ~conns[c].server.ended
    /\ ~conns[c].relayed
    /\ CommitTcp(c, [conns[c] EXCEPT !.relayed = TRUE])

Relay == \E c \in 1..Len(conns) : RelayOf(c)

\* start() with a table of one enabled TCP route, its server listening.
InitTcp ==
    /\ routes = << [name |-> "a", protocol |-> "tcp",
                    listen |-> [host |-> "127.0.0.1", port |-> 9987],
                    forward |-> [host |-> "10.0.0.1", port |-> 9987],
                    enabled |-> TRUE] >>
    /\ activeServers =
          << [name |-> "a", protocol |-> "tcp",
              listen |-> [host |-> "127.0.0.1", port |-> 9987],
              forward |-> [host |-> "10.0.0.1", port |-> 9987],
              server |-> [wrapper |-> FALSE, state |-> "listening"]] >>
    /\ orphans = {}
    /\ result = [op |-> "listening", name |-> "a", success |-> TRUE]
    /\ steps = 0
    /\ NoSessions

NextTcp ==
    \/ Accept
    \/ Connected
    \/ ClientError
    \/ ClientEnd
    \/ ClientClose
    \/ ServerError
    \/ ServerEnd
    \/ ServerClose
    \/ Relay
    \/ ToggleRoute
    \/ RemoveRoute
    \/ Restart
    \/ Listening

SpecTcp == InitTcp /\ [][NextTcp]_vars

-----------------------------------------------------------------------------
(* Properties *)

SameAddress(x, y) ==
    /\ x.protocol = y.protocol
    /\ x.listen.host = y.listen.host
    /\ x.listen.port = y.listen.port

\* Route j is the first enabled route of its (protocol, host, port) in
\* table order.
FirstOfAddress(table, j) ==
    ~\E i \in 1..(j - 1) : table[i].enabled /\ SameAddress(table[i], table[j])

AfterStartAll == result.op \in {"start", "restart"}

\* The entries of activeServers that carry this name.
EntriesOf(active, name) == SelectSeq(active, LAMBDA s : s.name = name)

\* C1: activeServers never holds two entries with the same (protocol,
\* listen.host, listen.port); and right after a startAll pass an enabled route
\* has an entry (exactly one, on its own address, its bind requested) exactly
\* when no enabled route before it in the table has the same address, so of
\* two enabled routes sharing an address the first is active and the second
\* has no socket at all.
C1_UniqueListen ==
    /\ \A i, j \in 1..Len(activeServers) :
          i # j => ~SameAddress(activeServers[i], activeServers[j])
    /\ AfterStartAll =>
          \A j \in 1..Len(routes) :
             routes[j].enabled =>
                LET es == EntriesOf(activeServers, routes[j].name) IN
                IF FirstOfAddress(routes, j)
                THEN /\ Len(es) = 1
                     /\ SameAddress(es[1], routes[j])
                     /\ es[1].server.state = "binding"
                ELSE es = <<>>

C1_Witness ==
    /\ result.op = "restart"
    /\ \E i, j \in 1..Len(routes) :
          /\ i < j
          /\ routes[i].enabled /\ routes[j].enabled
          /\ SameAddress(routes[i], routes[j])
          /\ IsActive(activeServers, routes[i].name)
          /\ ~IsActive(activeServers, routes[j].name)

\* C2: a restart (stopAll, then startAll) leaves no listening socket of a
\* previously active entry open: every socket that was bound for an entry of
\* activeServers before the step is released by it.
C2_StopAllReleases ==
    [][ Restart =>
          \A i \in 1..Len(activeServers) :
             activeServers[i].server.state = "listening" =>
                SocketOf(activeServers[i]) \notin orphans' ]_ctlVars

\* C3: updateRoute on an active route, with the same protocol and listen
\* address and another forward target, leaves exactly one entry for that
\* name, on the same listen address and forwarding to the new target.
C3_UpdateReplaces ==
    [][ \A n \in Names, rc \in RouteConfigs :
          ( /\ UpdateRouteOf(n, rc)
            /\ rc.enabled
            /\ IsActive(activeServers, n)
            /\ SameAddress(EntriesOf(activeServers, n)[1], rc)
            /\ EntriesOf(activeServers, n)[1].forward # rc.forward )
          => LET es == EntriesOf(activeServers', n) IN
             /\ Len(es) = 1
             /\ SameAddress(es[1], rc)
             /\ es[1].forward = rc.forward ]_ctlVars

\* C4: every entry of activeServers belongs to a route that is in the table
\* and enabled.
C4_ListenerOnlyForEnabledRoute ==
    \A i \in 1..Len(activeServers) :
        \E j \in 1..Len(routes) :
            /\ routes[j].name = activeServers[i].name
            /\ routes[j].enabled

\* C5: from every reachable state, toggleRoute twice in a row on a route of
\* the table restores its enabled value and whether it has an active listener.
C5_ToggleTwiceRestores ==
    \A j \in 1..Len(routes) :
        LET n == routes[j].name
            T == toggleRoute(toggleRoute(State, n).st, n).st
        IN  /\ T.routes[j].enabled = routes[j].enabled
            /\ IsActive(T.activeServers, n) = IsActive(activeServers, n)


\* C6: right after a startAll pass, every enabled route whose (protocol,
\* host, port) no other enabled route of the table has is active, wherever
\* it stands in the table relative to a route that was not started.
C6_FailureIsolated ==
    AfterStartAll =>
       \A j \in 1..Len(routes) :
          ( /\ routes[j].enabled
            /\ \A k \in 1..Len(routes) :
                  k # j /\ routes[k].enabled => ~SameAddress(routes[k], routes[j]) )
          => IsActive(activeServers, routes[j].name)

\* A pass in which a route failed to start (its address was taken by an
\* earlier route) and a later, non-conflicting route is active.
C6_Witness ==
    /\ result.op = "restart"
    /\ \E i, j \in 1..Len(routes) :
          /\ i < j
          /\ routes[i].enabled
          /\ ~FirstOfAddress(routes, i)
          /\ ~IsActive(activeServers, routes[i].name)
          /\ routes[j].enabled
          /\ \A k \in 1..Len(routes) :
                k # j /\ routes[k].enabled => ~SameAddress(routes[k], routes[j])
          /\ IsActive(activeServers, routes[j].name)

\* C8: an 'error' event on the listening socket of an entry removes exactly
\* that entry from activeServers and leaves every other entry as it was.
C8_ErrorDropsListener ==
    [][ \A i \in 1..Len(activeServers) :
          TcpServerErrorOf(i) \/ UdpServerErrorOf(i)
          => activeServers' = splice(activeServers, i) ]_ctlVars

NamesDistinct(table) ==
    \A i, j \in 1..Len(table) : i # j => table[i].name # table[j].name

\* C9: the names of the table are pairwise distinct, and in every reachable
\* state addRoute with a name of the table, and removeRoute, updateRoute and
\* toggleRoute with a name that is not in the table, return success = false
\* and leave the table, activeServers and the sockets as they are.
C9_NameErrors ==
    /\ NamesDistinct(routes)
    /\ \A rc \in RouteConfigs :
          rc.name \in TableNames(routes) => addRoute(State, rc) = Fail(State)
    /\ \A n \in Names \ TableNames(routes) :
          /\ removeRoute(State, n) = Fail(State)
          /\ toggleRoute(State, n) = Fail(State)
          /\ \A rc \in RouteConfigs : updateRoute(State, n, rc) = Fail(State)

\* A refused addRoute on a table that holds the name, nothing else changed.
C9_Witness ==
    /\ result.op = "addRoute"
    /\ ~result.success
    /\ result.name \in TableNames(routes)

\* C10: in every reachable state, updateRoute(name, def) on a route of the
\* table leaves the table as long as it was, every other position as it was,
\* and at the route's position a record whose name is the key and whose
\* protocol, listen, forward and enabled are those of def.
C10_UpdateWholesale ==
    \A j \in 1..Len(routes), rc \in RouteConfigs :
        LET n == routes[j].name
            T == updateRoute(State, n, rc)
        IN  /\ T.success
            /\ Len(T.st.routes) = Len(routes)
            /\ \A k \in 1..Len(routes) : k # j => T.st.routes[k] = routes[k]
            /\ T.st.routes[j].name = n
            /\ T.st.routes[j].protocol = rc.protocol
            /\ T.st.routes[j].listen = rc.listen
            /\ T.st.routes[j].forward = rc.forward
            /\ T.st.routes[j].enabled = rc.enabled
            /\ DOMAIN T.st.routes[j] = DOMAIN rc

\* An updateRoute that succeeded on the second route of the table.
C10_Witness ==
    /\ result.op = "updateRoute"
    /\ result.success
    /\ Len(routes) = 2
    /\ routes[2].name = result.name


\* C7: a timer only removes a session once UdpTimeout has passed since the
\* last datagram handled for that session, and a datagram from an endpoint
\* that has no session gets a new socket, open and used by no other session.
C7_EvictionNotEarly ==
    [][ /\ \A t \in timers :
             TimeoutOf(t) /\ t.key \in DOMAIN clients
             => now >= lastSeen[t.key] + UdpTimeout
        /\ \A k \in Keys :
             DatagramOf(k) /\ k \notin DOMAIN clients
             => /\ clients'[k].socket \notin 1..Len(sockets)
                /\ sockets'[clients'[k].socket].state = "open"
                /\ \A q \in DOMAIN clients :
                      clients'[q].socket # clients'[k].socket ]_vars

\* C11: in every reachable state stopAllProxies leaves activeServers empty,
\* whether the routes of its entries are enabled, disabled or no longer in
\* the table, leaves the route table as it was, and applied once more to its
\* own result changes nothing; after the SIGINT handler the list is empty.
C11_StopAllEmpties ==
    LET T == stopAllProxies(State) IN
    /\ T.activeServers = <<>>
    /\ T.routes = routes
    /\ stopAllProxies(T) = T
    /\ result.op = "SIGINT" => activeServers = <<>>

\* stopAllProxies ran on a list that held the entry of a disabled route.
C11_Witness ==
    /\ result.op = "SIGINT"
    /\ activeServers = <<>>
    /\ orphans # {}
    /\ \E j \in 1..Len(routes) : ~routes[j].enabled

\* A side of a relayed connection the relay has closed or seen go down.
Down(sock) == sock.ended \/ sock.st \in {"closing", "closed"}

\* C12: for every accepted connection, once the client socket has errored,
\* ended or closed the relay has ended the server socket, and once the server
\* socket has errored (a failed dial included), ended or closed the relay has
\* ended the client socket; and there was exactly one dial for it.
C12_SymmetricTeardown ==
    \A c \in 1..Len(conns) :
        /\ conns[c].client.st \in {"closing", "closed"}
              => Down(conns[c].server)
        /\ conns[c].server.st \in {"closing", "closed"}
              => Down(conns[c].client)
        /\ conns[c].dials = 1

\* A dial that failed: the server socket went from connecting to closed, the
\* client socket was ended, and there was no second dial.
C12_Witness ==
    \E c \in 1..Len(conns) :
        /\ conns[c].server = [st |-> "closed", ended |-> FALSE]
        /\ conns[c].client.ended
        /\ conns[c].client.st = "closed"
        /\ conns[c].dials = 1
        /\ ~conns[c].relayed

\* C13: start() with no configuration file persists a default table, runs
\* startAllProxies and leaves the process running.
C13_AbsentConfigStarts ==
    [][ \A file \in ConfigFiles :
          StartOf(file) /\ ~file.present
          => /\ start(file).saved
             /\ result'.op = "start" ]_vars

\* C14: close() is never called on a per-client socket that is already
\* closed, and no datagram is sent on a per-client socket that is closed,
\* however datagrams, timers, socket errors and stopAllProxies interleave.
C14_NoDoubleCloseNoSendOnClosed ==
    [][ /\ \A t \in timers : TimeoutOf(t) => ~timeoutThrows(Udp, t)
        /\ \A k \in Keys :
              DatagramOf(k) /\ k \in DOMAIN clients
              => ~NotRunning(Udp, clients[k].socket) ]_vars

\* C15: after a datagram of either direction has been handled for a session
\* (one from the client, or a reply of the backend on the session's socket),
\* the session's timer is one set by that handler, due UdpTimeout later.
C15_TimerResetBothWays ==
    [][ /\ \A k \in Keys :
              DatagramOf(k)
              => \E t \in timers' : /\ t.id = clients'[k].timeout
                                    /\ t.due = now + UdpTimeout
        /\ \A s \in 1..Len(sockets) :
              ReplyOf(s) /\ sockets[s].key \in DOMAIN clients
              => \E t \in timers' : /\ t.id = clients'[sockets[s].key].timeout
                                    /\ t.due = now + UdpTimeout ]_vars

\* A step that stops the UDP listener the sessions belong to: a restart, a
\* removeRoute of its route, or a toggleRoute that disables its route.
StopsUdpListener ==
    /\ \E i \in 1..Len(activeServers) :
          /\ HoldsSessions(activeServers[i])
          /\ \/ Restart
             \/ /\ RemoveRoute
                /\ result'.success
                /\ result'.name = activeServers[i].name
             \/ /\ ToggleRoute
                /\ result'.success
                /\ result'.name = activeServers[i].name
                /\ \E j \in 1..Len(routes) :
                      routes[j].name = result'.name /\ routes[j].enabled

\* C16: a step that stops a UDP listener (stopAll, removeRoute, toggleRoute)
\* leaves every session the listener had with its socket closed and its
\* timer cancelled.
C16_StopClosesSessions ==
    [][ StopsUdpListener
        => \A k \in DOMAIN clients :
              /\ sockets'[clients[k].socket].state = "closed"
              /\ \A t \in timers' : t.id # clients[k].timeout ]_vars

\* C17: bytes of an accepted connection are relayed to its forward target
\* only while activeServers holds a listener of the connection's route with
\* that forward target.
C17_NoRelayAfterStop ==
    [][ \A c \in 1..Len(conns) :
          RelayOf(c)
          => \E i \in 1..Len(activeServers) :
                /\ activeServers[i].name = conns[c].route
                /\ activeServers[i].protocol = "tcp"
                /\ activeServers[i].forward = conns[c].forward ]_vars

\* C18: no two entries of activeServers carry the same route name.
C18_OneListenerPerName ==
    \A i, j \in 1..Len(activeServers) :
        i # j => activeServers[i].name # activeServers[j].name

\* C19: no two enabled routes of the table have the same (protocol,
\* listen.host, listen.port).
C19_EnabledRoutesDistinctAddress ==
    \A i, j \in 1..Len(routes) :
        i # j /\ routes[i].enabled /\ routes[j].enabled
        => ~SameAddress(routes[i], routes[j])

\* C20: two sessions never hold the same socket, a reply received on the
\* socket of the session of key k is sent to k, and every open per-client
\* socket is the socket of the session of the client it was created for, so
\* no reply reaches another client.
C20_SessionsIsolated ==
    /\ \A k, q \in DOMAIN clients :
          k # q => clients[k].socket # clients[q].socket
    /\ \A k \in DOMAIN clients : replyTarget(Udp, clients[k].socket) = k
    /\ \A s \in 1..Len(sockets) :
          sockets[s].state = "open"
          => /\ sockets[s].key \in DOMAIN clients
             /\ clients[sockets[s].key].socket = s
    /\ lastReply.to # "" => lastReply.to \in { sockets[s].key : s \in 1..Len(sockets) }

\* Two clients have a session each, on two sockets, and a reply went to the
\* first after the last datagram of the second.
C20_Witness ==
    \E k, q \in DOMAIN clients :
        /\ k # q
        /\ clients[k].socket < clients[q].socket
        /\ sockets[clients[k].socket].state = "open"
        /\ sockets[clients[q].socket].state = "open"
        /\ lastReply.to = k
        /\ lastReply.at > lastSeen[q]

\* C21: a key is in the clients Map exactly when its session's socket is open
\* and exactly one timer is pending for it, the one the session holds; every
\* open per-client socket belongs to a session of the Map; and every pending
\* timer is the timer of the session now in the Map under its key, so no
\* timer is pending for a removed session and a timer can only evict the
\* session it was armed for.
C21_SessionTableConsistent ==
    /\ \A k \in DOMAIN clients :
          /\ sockets[clients[k].socket].state = "open"
          /\ Cardinality({ t \in timers : t.key = k }) = 1
          /\ \E t \in timers : t.key = k /\ t.id = clients[k].timeout
    /\ \A s \in 1..Len(sockets) :
          sockets[s].state = "open"
          => /\ sockets[s].key \in DOMAIN clients
             /\ clients[sockets[s].key].socket = s
    /\ \A t \in timers :
          /\ t.key \in DOMAIN clients
          /\ clients[t.key].timeout = t.id

====
